---- MODULE Spec2Model ----
(***************************************************************************)
(* A model of src/main.py (Miza News Bot v26): the seen-link store, the    *)
(* normalizers, the keyword matchers, fetch_new_items, fetch_tiktok_videos, *)
(* job_realtime_check and the scheduling loop of main.                      *)
(*                                                                          *)
(* Text is a sequence of one-character strings.  Time is a whole number of  *)
(* minutes.                                                                 *)
(***************************************************************************)
EXTENDS Integers, Sequences, FiniteSets, TLC

\* ------------------------------------------------------------------------
\* Bounds of the model
\* ------------------------------------------------------------------------
MaxTokens == 5      \* tokens in a URL handed to normalize_link on its own
MaxOffers == 2      \* feed entries and TikTok items the collaborators yield,
                    \* over the whole run
MaxSleeps == 5      \* iterations of the scheduling loop that only sleep
MaxRestarts == 1    \* process restarts
MaxDelays == 1      \* minutes spent waiting for feeds, over the whole run
MaxLost == 1        \* entries of failed fetches that are followed
MaxLate == 1        \* entries published after a fetch that are followed

\* ------------------------------------------------------------------------
\* Program constants
\* ------------------------------------------------------------------------
WindowHours == 72           \* job_realtime_check: fetch_new_items(hours=72)
RecentMinutes == 5          \* fetch_new_items: age_min <= 5
TikTokWindowMinutes == 4320 \* fetch_tiktok_videos: age_min > 72 * 60
EveryMinutes == 5           \* main: schedule.every(5).minutes
SleepMinutes == 1           \* main: time.sleep(60)
DailyAt == 540              \* main: schedule.every().day.at("09:00")
DayMinutes == 1440
NumFeeds == 2               \* sources of RSS_FEEDS that are modelled
NumChats == 2               \* chat ids of CHAT_IDS that are modelled

\* ------------------------------------------------------------------------
\* Characters
\* ------------------------------------------------------------------------
Whitespace == {" ", "\t"}

UpperSeq == <<"A","B","C","D","E","F","G","H","I","J","K","L","M","N","O","P","Q",
              "R","S","T","U","V","W","X","Y","Z","Ấ">>
LowerSeq == <<"a","b","c","d","e","f","g","h","i","j","k","l","m","n","o","p","q",
              "r","s","t","u","v","w","x","y","z","ấ">>

\* str.lower() on one character
Lower(c) ==
    IF \E i \in 1..Len(UpperSeq) : UpperSeq[i] = c
    THEN LowerSeq[CHOOSE i \in 1..Len(UpperSeq) : UpperSeq[i] = c]
    ELSE c

LowerStr(s) == [i \in 1..Len(s) |-> Lower(s[i])]

\* str.strip()
RECURSIVE LStrip(_)
LStrip(s) ==
    IF s # <<>> /\ Head(s) \in Whitespace THEN LStrip(Tail(s)) ELSE s

RECURSIVE RStrip(_)
RStrip(s) ==
    IF s # <<>> /\ s[Len(s)] \in Whitespace
    THEN RStrip(SubSeq(s, 1, Len(s) - 1))
    ELSE s

Strip(s) == RStrip(LStrip(s))

\* `needle in haystack` for str
Contains(hay, needle) ==
    \E i \in 1..(Len(hay) - Len(needle) + 1) :
        SubSeq(hay, i, i + Len(needle) - 1) = needle

\* ------------------------------------------------------------------------
\* normalize_link: re.sub(r"(&utm_[^=]+=[^&]+)", "", url).strip()
\* ------------------------------------------------------------------------
UtmPrefix == <<"&", "u", "t", "m", "_">>

\* first index >= i holding character c, or Len(s) + 1
RECURSIVE IndexOf(_, _, _)
IndexOf(s, c, i) ==
    IF i > Len(s) THEN Len(s) + 1
    ELSE IF s[i] = c THEN i
    ELSE IndexOf(s, c, i + 1)

\* Length of the match of &utm_[^=]+=[^&]+ that starts at index i, 0 if none.
\* [^=]+ is greedy and must be followed by "=", so the key is the whole run up
\* to the first "="; [^&]+ is greedy, so the value runs to the next "&" or the
\* end.  Both runs hold at least one character.
UtmMatchLen(s, i) ==
    LET eq == IndexOf(s, "=", i + 5)
        amp == IndexOf(s, "&", eq + 1)
    IN  IF /\ i + 4 <= Len(s)
           /\ SubSeq(s, i, i + 4) = UtmPrefix
           /\ eq <= Len(s)
           /\ eq >= i + 6
           /\ amp >= eq + 2
        THEN amp - i
        ELSE 0

\* re.sub with the empty replacement: leftmost matches, scanning on after each
RECURSIVE SubUtm(_, _)
SubUtm(s, i) ==
    IF i > Len(s) THEN <<>>
    ELSE IF UtmMatchLen(s, i) > 0 THEN SubUtm(s, i + UtmMatchLen(s, i))
    ELSE <<s[i]>> \o SubUtm(s, i + 1)

\* re.sub with count=1: only the leftmost match is removed
RECURSIVE SubUtmOnce(_, _)
SubUtmOnce(s, i) ==
    IF i > Len(s) THEN <<>>
    ELSE IF UtmMatchLen(s, i) > 0
         THEN SubSeq(s, i + UtmMatchLen(s, i), Len(s))
         ELSE <<s[i]>> \o SubUtmOnce(s, i + 1)

NormalizeFirstOnly(url) == Strip(SubUtmOnce(url, 1))

normalize_link(url) == Strip(SubUtm(url, 1))

\* ------------------------------------------------------------------------
\* normalize_title
\* ------------------------------------------------------------------------
Digits == {"0","1","2","3","4","5","6","7","8","9"}

\* the allow-list of the second re.sub: a-z, 0-9, the accented letters, space
TitleAllowed == {LowerSeq[i] : i \in 1..Len(LowerSeq)} \cup Digits \cup {" "}

RECURSIVE KeepAllowed(_)
KeepAllowed(s) ==
    IF s = <<>> THEN <<>>
    ELSE IF Head(s) \in TitleAllowed THEN <<Head(s)>> \o KeepAllowed(Tail(s))
    ELSE KeepAllowed(Tail(s))

\* re.sub(r"\s+", " ", title)
RECURSIVE CollapseSpaces(_)
CollapseSpaces(s) ==
    IF s = <<>> THEN <<>>
    ELSE IF Head(s) \in Whitespace
         THEN <<" ">> \o CollapseSpaces(LStrip(Tail(s)))
         ELSE <<Head(s)>> \o CollapseSpaces(Tail(s))

normalize_title(title) == Strip(CollapseSpaces(KeepAllowed(LowerStr(title))))

\* ------------------------------------------------------------------------
\* Keyword patterns.  A pattern is a sequence of characters in which the
\* element WS stands for \s*.
\* ------------------------------------------------------------------------
WS == "\\s*"

\* (Miza|MZG|Miza\s*Corp|Giấy\s*Miza)
FeedKeywords ==
    { <<"M","i","z","a">>,
      <<"M","Z","G">>,
      <<"M","i","z","a",WS,"C","o","r","p">>,
      <<"G","i","ấ","y",WS,"M","i","z","a">> }

\* (Miza|MZG|Miza\s*Corp|MizaGroup|Giấy\s*Miza|#Miza|#MZG|#MizaCorp|#MizaGroup)
TikTokKeywords ==
    FeedKeywords \cup
    { <<"M","i","z","a","G","r","o","u","p">>,
      <<"#","M","i","z","a">>,
      <<"#","M","Z","G">>,
      <<"#","M","i","z","a","C","o","r","p">>,
      <<"#","M","i","z","a","G","r","o","u","p">> }

\* the pattern matches text at index i (re.IGNORECASE)
RECURSIVE MatchAt(_, _, _)
MatchAt(text, i, pat) ==
    IF pat = <<>> THEN TRUE
    ELSE IF Head(pat) = WS
         THEN \/ MatchAt(text, i, Tail(pat))
              \/ /\ i <= Len(text)
                 /\ text[i] \in Whitespace
                 /\ MatchAt(text, i + 1, pat)
         ELSE /\ i <= Len(text)
              /\ Lower(text[i]) = Lower(Head(pat))
              /\ MatchAt(text, i + 1, Tail(pat))

\* keyword_pattern.search(text) is not None
KeywordSearch(pats, text) ==
    \E p \in pats : \E i \in 1..(Len(text) + 1) : MatchAt(text, i, p)

\* ------------------------------------------------------------------------
\* Values
\* ------------------------------------------------------------------------
NoTime == -1        \* a timestamp field that is absent (None)
BadTime == -2       \* a timestamp field that datetime() / fromtimestamp() rejects
NotAString == <<"<None>">>  \* a title field that holds no str

TikTokSource == 0   \* "source": "TikTok"; feed sources are 1..NumFeeds
Feeds == 1..NumFeeds
Chats == 1..NumChats

\* the instant main starts: EveryMinutes before 09:00 of some day
StartTime == 7 * DayMinutes + DailyAt - EveryMinutes

tMiza == <<"M","i","z","a"," ","u","p">>
tMizaX == <<"M","I","Z","A"," "," ","u","p","!">>
tCoin == <<"N","e","w"," ","M","Z","G","c","o","i","n">>
tNews == <<"n","e","w","s">>
tBlank == <<" ">>

lA == <<"x","/","a">>
lAutm == <<"x","/","a","&","u","t","m","_","s","=","y">>
lB == <<" ","x","/","b">>
lNone == <<>>
kA == <<"t","/","1">>
kB == <<"t","/","2">>

\* What a feed can offer: title, link, minutes since publication (age) and
\* since the update (upd); NoTime for an absent field, BadTime for one that
\* datetime() rejects.
Offer(title, link, age, upd) ==
    [title |-> title, link |-> link, age |-> age, upd |-> upd]

FeedOffers ==
    { Offer(tMiza, lA, 0, NoTime), Offer(tMiza, lA, 5, NoTime),
      Offer(tMiza, lA, 6, NoTime), Offer(tMizaX, lAutm, 4, NoTime),
      Offer(tCoin, lA, 0, NoTime), Offer(tMiza, lNone, 4, NoTime),
      Offer(tNews, lB, 0, NoTime), Offer(NotAString, lB, 0, NoTime),
      Offer(tBlank, lB, 0, NoTime), Offer(tMizaX, lB, 0, NoTime),
      Offer(tCoin, lB, NoTime, NoTime), Offer(tCoin, lB, NoTime, 6),
      Offer(tCoin, lB, BadTime, NoTime),
      Offer(tMiza, lA, WindowHours * 60, NoTime),
      Offer(tMiza, lA, WindowHours * 60 + 1, NoTime),
      Offer(tCoin, lB, NoTime, BadTime), Offer(tCoin, lB, BadTime, 6) }

\* the entry a feed holds at time t for an offer
StampOf(age, t) == IF age \in {NoTime, BadTime} THEN age ELSE t - age

EntryAt(o, t) ==
    [title |-> o.title, link |-> o.link,
     published |-> StampOf(o.age, t), updated |-> StampOf(o.upd, t)]

FeedUniverse(t) == { EntryAt(o, t) : o \in FeedOffers }

\* What a TikTok endpoint can list: title, link, minutes since creation.
TikTokOffers ==
    { Offer(tMiza, kA, 60, NoTime), Offer(tMiza, kB, 0, NoTime),
      Offer(tNews, kA, 0, NoTime), Offer(tMiza, lNone, 0, NoTime),
      Offer(tMiza, kA, BadTime, NoTime), Offer(NotAString, kB, 0, NoTime),
      Offer(tMiza, kB, TikTokWindowMinutes, NoTime),
      Offer(tMiza, kB, TikTokWindowMinutes + 1, NoTime) }

VideoAt(o, t) ==
    [title |-> o.title, link |-> o.link, createTime |-> StampOf(o.age, t)]

TikTokUniverse(t) == { VideoAt(o, t) : o \in TikTokOffers }

\* ------------------------------------------------------------------------
\* The text functions on the texts above, computed once
\* ------------------------------------------------------------------------
KnownTitles ==
    { o.title : o \in FeedOffers \cup TikTokOffers }
    \cup { Strip(o.title) : o \in FeedOffers \cup TikTokOffers }
KnownLinks == { o.link : o \in FeedOffers \cup TikTokOffers }

TitleTable ==
    [t \in KnownTitles |->
        [norm |-> normalize_title(t),
         feed |-> KeywordSearch(FeedKeywords, t),
         tiktok |-> KeywordSearch(TikTokKeywords, t)]]
LinkTable == [l \in KnownLinks |-> normalize_link(l)]

NormLink(l) == IF l \in KnownLinks THEN LinkTable[l] ELSE normalize_link(l)
NormTitle(t) == IF t \in KnownTitles THEN TitleTable[t].norm ELSE normalize_title(t)
FeedKeyword(t) ==
    IF t \in KnownTitles THEN TitleTable[t].feed ELSE KeywordSearch(FeedKeywords, t)
TikTokKeyword(t) ==
    IF t \in KnownTitles THEN TitleTable[t].tiktok
    ELSE KeywordSearch(TikTokKeywords, t)

\* ------------------------------------------------------------------------
\* Storage.  The file is kept as the set of its lines: load_sent reads a set,
\* so neither the order of the lines nor a repeated line is ever observed.
\* ------------------------------------------------------------------------
\* load_sent: the stripped, non-empty lines of the file
load_sent(file) == { Strip(l) : l \in file } \ { <<>> }

\* the file opened with "w" instead of "a"
OverwriteSent(file, link) == { Strip(link) }

\* save_sent: append link.strip() and a newline
save_sent(file, link) == file \cup { Strip(link) }

\* ------------------------------------------------------------------------
\* parse_date: published, else updated, else the clock; the clock on failure
\* ------------------------------------------------------------------------
\* the epoch where the clock should be: no timestamp, or one that does not
\* parse, dates the entry 1970
ParseDateOrEpoch(e, t) ==
    IF e.published \notin {NoTime, BadTime} THEN e.published
    ELSE IF e.published = NoTime /\ e.updated \notin {NoTime, BadTime}
         THEN e.updated
         ELSE 0

parse_date(e, t) ==
    IF e.published # NoTime
    THEN (IF e.published = BadTime THEN t ELSE e.published)
    ELSE IF e.updated # NoTime
         THEN (IF e.updated = BadTime THEN t ELSE e.updated)
         ELSE t

\* ------------------------------------------------------------------------
\* list.sort(key=lambda x: x["date"], reverse=True): stable, latest first
\* ------------------------------------------------------------------------
RECURSIVE InsertDesc(_, _)
InsertDesc(sorted, x) ==
    IF sorted = <<>> THEN <<x>>
    ELSE IF Head(sorted).date >= x.date
         THEN <<Head(sorted)>> \o InsertDesc(Tail(sorted), x)
         ELSE <<x>> \o sorted

RECURSIVE SortFrom(_, _)
SortFrom(sorted, rest) ==
    IF rest = <<>> THEN sorted
    ELSE SortFrom(InsertDesc(sorted, Head(rest)), Tail(rest))

\* no sort at all
KeepOrder(items) == items

SortDesc(items) == SortFrom(<<>>, items)

\* ------------------------------------------------------------------------
\* fetch_new_items: what the loop body does with one entry
\* ------------------------------------------------------------------------
\* a window check that also rejects an entry published at the cutoff
AtOrBeforeCutoff(pub, cut) == pub <= cut

\* line 134
BeforeCutoff(pub, cut) == pub < cut

\* line 208
PastWindow(age_min) == age_min > TikTokWindowMinutes

\* line 119 raises when the title holds no str
EntryRaises(e) == e.title = NotAString

\* lines 119-137.  Line 132 never skips: the title is not empty there.
FeedOutcome(e, t, cut, links, titles) ==
    LET title == Strip(e.title)
        link == NormLink(e.link)
        norm_title == NormTitle(title)
        pub == parse_date(e, t)
    IN  IF title = <<>> THEN "empty_title"
        ELSE IF link \in links \/ norm_title \in titles THEN "seen"
        ELSE IF ~FeedKeyword(title) THEN "no_keyword"
        ELSE IF BeforeCutoff(pub, cut) THEN "window"
        ELSE IF t - pub <= RecentMinutes THEN "accepted"
        ELSE "stale"

\* lines 139-144
FeedItem(e, t, s) ==
    [title |-> Strip(e.title), link |-> NormLink(e.link),
     date |-> parse_date(e, t), source |-> s]

\* what the history keeps of an accepted item: the item, its normalized link
\* and title, and the moment it was checked
Accepted(item, t) ==
    [item |-> item, nlink |-> NormLink(item.link),
     ntitle |-> NormTitle(item.title), at |-> t]

\* an except clause around the whole loop over RSS_FEEDS: a caught exception
\* ends the loop
RaiseEndsLoop(s) == NumFeeds + 1

\* lines 147-148: the except clause sits inside the for loop over RSS_FEEDS,
\* so after a caught exception the loop goes on with the next source
AfterRaise(s) == s + 1

\* ------------------------------------------------------------------------
\* fetch_tiktok_videos
\* ------------------------------------------------------------------------
\* What one endpoint answers.  kind: "error" (the request or r.json() raises),
\* "nodata" (no "data" key, or none of the expected keys under it), "null"
\* ("data" is null), "text" (the list key holds a str), "videos", "results";
\* n: the length of the list.
Responses(n) ==
    { [kind |-> k, n |-> 0] : k \in {"error", "nodata", "null", "text"} }
    \cup { [kind |-> k, n |-> m] : k \in {"videos", "results"}, m \in 0..n }

\* data_all holds "video" for a listed item, whose fields are drawn when the
\* loop of line 198 reaches it, and "char" for one character of a str that
\* took the place of the list
Elements(n) == [i \in 1..n |-> "video"]

\* lines 177-181: what the search answer adds to data_all
SearchAdds(r) ==
    IF r.kind \in {"videos", "results"} THEN Elements(r.n)
    ELSE IF r.kind = "text" THEN <<"char">>
    ELSE <<>>

\* lines 192-193: what the user answer adds to data_all
UserAdds(r) ==
    IF r.kind = "videos" THEN Elements(r.n)
    ELSE IF r.kind = "text" THEN <<"char">>
    ELSE <<>>

\* lines 199-209.  Lines 199-202 raise on an element that is no dict and on a
\* creation time fromtimestamp rejects; line 206 raises on a title that holds
\* no str, once the link checks have passed.
VideoOutcome(v, t, links) ==
    IF v.createTime = BadTime THEN "raised"
    ELSE IF v.link = <<>> \/ v.link \in links THEN "seen"
    ELSE IF v.title = NotAString THEN "raised"
    ELSE IF ~TikTokKeyword(v.title) THEN "no_keyword"
    ELSE IF PastWindow(t - v.createTime) THEN "window"
    ELSE "accepted"

\* lines 211-216
VideoItem(v) ==
    [title |-> v.title, link |-> v.link, date |-> v.createTime,
     source |-> TikTokSource]

\* ------------------------------------------------------------------------
\* schedule
\* ------------------------------------------------------------------------
Jobs == {"daily", "every5"}

\* the next 09:00 after t
NextDaily(t) ==
    LET today == (t \div DayMinutes) * DayMinutes + DailyAt
    IN  IF today > t THEN today ELSE today + DayMinutes

\* ------------------------------------------------------------------------
\* State
\* ------------------------------------------------------------------------
VARIABLES
    now,            \* the clock, in minutes
    pc,             \* where the main thread stands
    queue,          \* the jobs this run_pending still has to run
    next_run,       \* schedule: job -> next_run (NoTime before it is scheduled)
    sent_file,      \* data/sent_links.txt: its lines
    cutoff,         \* fetch_new_items: cutoff
    sent_links,     \* fetch_new_items / fetch_tiktok_videos: sent_links
    seen_titles,    \* fetch_new_items: seen_titles
    new_items,      \* fetch_new_items: new_items, then job_realtime_check's
    src,            \* fetch_new_items: the source the loop stands at
    fetched,        \* fetch_new_items: feedparser.parse(url) has returned
    idx,            \* fetch_new_items: entries of the current feed handled
    data_all,       \* fetch_tiktok_videos: data_all
    new_videos,     \* job_realtime_check: new_tiktok
    to_send,        \* job_realtime_check: the sorted items not yet sent
    outbox,         \* the items handed to send_telegram in this run, in order
    last_send,      \* the last send_telegram call: message, chats tried, reached
    status,         \* history: what became of each feed source in this pass
    last,           \* history: the last feed entry handled and its outcome
    lost,           \* history: entries a failed fetch would have yielded
    late,           \* history: entries published just after a fetch returned
    accepted_pass,  \* history: what this pass accepted, in order
    accepted_prior, \* history: normalized links accepted by earlier passes
    offered,        \* bound counter: entries and items yielded so far
    sleeps,         \* bound counter
    restarts,       \* bound counter
    delays,         \* bound counter
    url,            \* normalize_link on its own: the argument
    out,            \* normalize_link on its own: the result
    twice           \* normalize_link on its own: the result, normalized again

vars == <<now, pc, queue, next_run, sent_file, cutoff, sent_links, seen_titles,
          new_items, src, fetched, idx, data_all, new_videos, to_send, outbox,
          last_send, status, last, lost, late, accepted_pass, accepted_prior,
          offered,
          sleeps, restarts, delays, url, out, twice>>

schedVars == <<queue, next_run>>
fetchVars == <<cutoff, sent_links, seen_titles, new_items, src, fetched, idx>>
tiktokVars == <<data_all, new_videos>>
sendVars == <<to_send, outbox, last_send>>
boundVars == <<offered, sleeps, restarts, delays>>
normVars == <<url, out, twice>>

Due(j) == next_run[j] # NoTime /\ now >= next_run[j]

\* run_pending: the due jobs, sorted by next_run ("daily" was registered first)
DueJobs ==
    IF Due("daily") /\ Due("every5")
    THEN (IF next_run["every5"] < next_run["daily"]
          THEN <<"every5", "daily">> ELSE <<"daily", "every5">>)
    ELSE IF Due("daily") THEN <<"daily">>
    ELSE IF Due("every5") THEN <<"every5">>
    ELSE <<>>

\* ------------------------------------------------------------------------
\* Initial state: the process has started, main has not run, the file of
\* sent links does not exist
\* ------------------------------------------------------------------------
NoEntry == [title |-> <<>>, link |-> <<>>, published |-> NoTime, updated |-> NoTime]
NoLast == [src |-> 0, entry |-> NoEntry, outcome |-> "none", at |-> NoTime]
NoMessage == [title |-> <<>>, link |-> <<>>, date |-> NoTime, source |-> -1]
StartupMessage == [title |-> <<"s","t","a","r","t">>, link |-> <<>>,
                   date |-> NoTime, source |-> -1]
NoSend == [msg |-> NoMessage, tried |-> {}, reached |-> {}]

\* the locals of a pass that is not running
IdleLocals ==
    /\ cutoff = NoTime
    /\ sent_links = {}
    /\ seen_titles = {}
    /\ new_items = <<>>
    /\ src = 0
    /\ fetched = FALSE
    /\ idx = 0
    /\ data_all = <<>>
    /\ new_videos = <<>>
    /\ to_send = <<>>
    /\ outbox = <<>>
    /\ last_send = NoSend
    /\ status = [f \in Feeds |-> "pending"]
    /\ last = NoLast
    /\ accepted_pass = <<>>

\* everything but the position of the main thread and the normalizer's cells
InitStore ==
    /\ now = StartTime
    /\ sent_file = {}
    /\ queue = <<>>
    /\ next_run = [j \in Jobs |-> NoTime]
    /\ IdleLocals
    /\ lost = {}
    /\ late = {}
    /\ accepted_prior = {}
    /\ offered = 0
    /\ sleeps = 0
    /\ restarts = 0
    /\ delays = 0

Init ==
    /\ pc = "boot"
    /\ InitStore
    /\ url = <<>>
    /\ out = <<>>
    /\ twice = <<>>

\* the locals of a pass are gone
ResetLocals ==
    /\ cutoff' = NoTime
    /\ sent_links' = {}
    /\ seen_titles' = {}
    /\ new_items' = <<>>
    /\ src' = 0
    /\ fetched' = FALSE
    /\ idx' = 0
    /\ data_all' = <<>>
    /\ new_videos' = <<>>
    /\ to_send' = <<>>
    /\ outbox' = <<>>
    /\ last_send' = NoSend
    /\ status' = [f \in Feeds |-> "pending"]
    /\ last' = NoLast
    /\ accepted_pass' = <<>>

\* the normalized links of what the pass accepted join the earlier ones
PriorAfterPass ==
    accepted_prior \cup { accepted_pass[i].nlink : i \in DOMAIN accepted_pass }

\* ------------------------------------------------------------------------
\* send_telegram: one post per chat id; a post that raises is caught and the
\* loop goes on.  failing: the chats whose post raises.
\* ------------------------------------------------------------------------
\* the except clause around the loop instead of inside it: the first post that
\* raises ends the loop
SendStopsAtFailure(msg, failing) ==
    LET first == IF failing = {} THEN NumChats
                 ELSE CHOOSE c \in failing : \A d \in failing : c <= d
    IN  [msg |-> msg, tried |-> 1..first, reached |-> (1..first) \ failing]

send_telegram(msg, failing) ==
    [msg |-> msg, tried |-> Chats, reached |-> Chats \ failing]

\* ------------------------------------------------------------------------
\* main, lines 260-263: the start-up message, then the first pass
\* ------------------------------------------------------------------------
Main ==
    /\ pc = "boot"
    /\ \E failing \in SUBSET Chats :
          last_send' = send_telegram(StartupMessage, failing)
    /\ queue' = <<"boot">>
    /\ pc' = "job"
    /\ UNCHANGED <<now, next_run, sent_file, fetchVars, tiktokVars, to_send,
                   outbox, status, last, lost, late, accepted_pass, accepted_prior,
                   boundVars, normVars>>

\* ------------------------------------------------------------------------
\* job_realtime_check, line 226, and fetch_new_items, lines 109-113
\* ------------------------------------------------------------------------
StartJob ==
    /\ pc = "job"
    /\ cutoff' = now - WindowHours * 60
    /\ sent_links' = load_sent(sent_file)
    /\ seen_titles' = {}
    /\ new_items' = <<>>
    /\ src' = 1
    /\ fetched' = FALSE
    /\ idx' = 0
    /\ last_send' = NoSend
    /\ pc' = "rss"
    /\ UNCHANGED <<now, schedVars, sent_file, tiktokVars, to_send, outbox, status,
                   last, lost, late, accepted_pass, accepted_prior, boundVars, normVars>>

\* the entries that the history follows, of a failed fetch and of the minute
\* after a fetch returned: the well-formed, keyword-matching ones published in
\* the minute of the fetch
Followed(t) ==
    { EntryAt(o, t) : o \in { f \in FeedOffers :
                                f.title = tMiza /\ f.link = lA /\ f.age = 0 } }

\* line 117: feedparser.parse(url) raises, and line 148 logs it
FeedParseRaises ==
    /\ pc = "rss" /\ src <= NumFeeds /\ ~fetched
    /\ status' = [status EXCEPT ![src] = "fetch_error"]
    /\ IF Cardinality(lost) < MaxLost
       THEN \E e \in Followed(now) : lost' = lost \cup {<<src, e>>}
       ELSE lost' = lost
    /\ src' = AfterRaise(src)
    /\ last' = NoLast
    /\ UNCHANGED <<now, pc, schedVars, sent_file, cutoff, sent_links, seen_titles,
                   new_items, fetched, idx, tiktokVars, sendVars, late,
                   accepted_pass, accepted_prior, boundVars, normVars>>

\* line 117: feedparser.parse(url) returns, after d minutes
FeedParse ==
    /\ pc = "rss" /\ src <= NumFeeds /\ ~fetched
    /\ \E d \in {0, 1} :
          /\ d > 0 => delays < MaxDelays
          /\ now' = now + d
          /\ delays' = delays + d
          /\ late' = IF Cardinality(late) < MaxLate /\ lost = {} /\ restarts = 0
                     THEN late \cup { <<src, e>> : e \in Followed(now + d) }
                     ELSE late
    /\ fetched' = TRUE
    /\ idx' = 0
    /\ last' = NoLast
    /\ UNCHANGED <<pc, schedVars, sent_file, cutoff, sent_links, seen_titles,
                   new_items, src, tiktokVars, sendVars, status, lost,
                   accepted_pass, accepted_prior, offered, sleeps,
                   restarts, normVars>>

\* lines 118-145: the loop body for one entry of the current feed
FeedEntry ==
    /\ pc = "rss" /\ src <= NumFeeds /\ fetched
    /\ offered < MaxOffers
    /\ offered' = offered + 1
    /\ \E e \in FeedUniverse(now) :
          IF EntryRaises(e)
          THEN /\ status' = [status EXCEPT ![src] = "entry_error"]
               /\ last' = [src |-> src, entry |-> e, outcome |-> "raised", at |-> now]
               /\ src' = AfterRaise(src)
               /\ fetched' = FALSE
               /\ idx' = 0
               /\ UNCHANGED <<sent_file, seen_titles, new_items, accepted_pass>>
          ELSE LET o == FeedOutcome(e, now, cutoff, sent_links, seen_titles)
                   item == FeedItem(e, now, src)
               IN  /\ last' = [src |-> src, entry |-> e, outcome |-> o, at |-> now]
                   /\ idx' = idx + 1
                   /\ IF o = "accepted"
                      THEN /\ seen_titles' = seen_titles \cup {NormTitle(item.title)}
                           /\ new_items' = Append(new_items, item)
                           /\ sent_file' = save_sent(sent_file, item.link)
                           /\ accepted_pass' = Append(accepted_pass, Accepted(item, now))
                      ELSE UNCHANGED <<sent_file, seen_titles, new_items, accepted_pass>>
                   /\ UNCHANGED <<status, src, fetched>>
    /\ UNCHANGED <<now, pc, schedVars, cutoff, sent_links, tiktokVars, sendVars,
                   lost, late, accepted_prior, sleeps, restarts, delays,
                   normVars>>

\* line 118: feed.entries is exhausted
FeedEnd ==
    /\ pc = "rss" /\ src <= NumFeeds /\ fetched
    /\ status' = [status EXCEPT ![src] = "ok"]
    /\ src' = src + 1
    /\ fetched' = FALSE
    /\ idx' = 0
    /\ last' = NoLast
    /\ UNCHANGED <<now, pc, schedVars, sent_file, cutoff, sent_links, seen_titles,
                   new_items, tiktokVars, sendVars, lost, late, accepted_pass,
                   accepted_prior, boundVars, normVars>>

\* lines 150-151: sort and return
FetchReturn ==
    /\ pc = "rss" /\ src > NumFeeds
    /\ new_items' = SortDesc(new_items)
    /\ last' = NoLast
    /\ pc' = "tiktok_search"
    /\ UNCHANGED <<now, schedVars, sent_file, cutoff, sent_links, seen_titles, src,
                   fetched, idx, tiktokVars, sendVars, status, lost, late, accepted_pass,
                   accepted_prior, boundVars, normVars>>

\* fetch_tiktok_videos, lines 163-183: the clock, the store, the search request
TikTokSearch ==
    /\ pc = "tiktok_search"
    /\ sent_links' = load_sent(sent_file)
    /\ \E r1 \in Responses(MaxOffers - offered) :
          /\ data_all' = SearchAdds(r1)
          /\ offered' = offered + r1.n
    /\ status' = [f \in Feeds |-> "pending"]
    /\ pc' = "tiktok_user"
    /\ UNCHANGED <<now, schedVars, sent_file, cutoff, seen_titles, new_items, src,
                   fetched, idx, new_videos, sendVars, last, lost, late, accepted_pass,
                   accepted_prior, sleeps, restarts, delays, normVars>>

\* fetch_tiktok_videos, lines 186-195: the user request
TikTokUser ==
    /\ pc = "tiktok_user"
    /\ \E r2 \in Responses(MaxOffers - offered) :
          /\ data_all' = data_all \o UserAdds(r2)
          /\ offered' = offered + r2.n
    /\ pc' = "tiktok_filter"
    /\ UNCHANGED <<now, schedVars, sent_file, fetchVars, new_videos, sendVars,
                   status, last, lost, late, accepted_pass, accepted_prior, sleeps,
                   restarts, delays, normVars>>

\* fetch_tiktok_videos, lines 198-217: the loop body for one element of
\* data_all.  An exception here is caught nowhere: it ends job_realtime_check
\* and the main thread with it.  The clock of the age is line 163's.
TikTokVideo ==
    /\ pc = "tiktok_filter" /\ data_all # <<>>
    /\ data_all' = Tail(data_all)
    /\ \E v \in TikTokUniverse(now) :
          LET o == IF Head(data_all) = "char" THEN "raised"
                   ELSE VideoOutcome(v, now, sent_links)
          IN  /\ pc' = IF o = "raised" THEN "crashed" ELSE pc
              /\ IF o = "accepted"
                 THEN /\ new_videos' = Append(new_videos, VideoItem(v))
                      /\ sent_file' = save_sent(sent_file, v.link)
                      /\ accepted_pass' =
                            Append(accepted_pass, Accepted(VideoItem(v), now))
                 ELSE UNCHANGED <<new_videos, sent_file, accepted_pass>>
    /\ UNCHANGED <<now, schedVars, fetchVars, sendVars, status, last, lost, late,
                   accepted_prior, boundVars, normVars>>

\* fetch_tiktok_videos, lines 219-220: the loop is over
TikTokReturn ==
    /\ pc = "tiktok_filter" /\ data_all = <<>>
    /\ pc' = "dispatch"
    /\ UNCHANGED <<now, schedVars, sent_file, fetchVars, tiktokVars, sendVars,
                   status, last, lost, late, accepted_pass, accepted_prior, boundVars,
                   normVars>>

\* job_realtime_check, lines 228-234: merge, return if empty, else sort
Dispatch ==
    /\ pc = "dispatch"
    /\ to_send' = SortDesc(new_items \o new_videos)
    /\ pc' = "send"
    /\ UNCHANGED <<now, schedVars, sent_file, fetchVars, tiktokVars, outbox,
                   last_send, status, last, lost, late, accepted_pass, accepted_prior,
                   boundVars, normVars>>

\* job_realtime_check, lines 235-241: one item of the sorted list
SendItem ==
    /\ pc = "send" /\ to_send # <<>>
    /\ \E failing \in SUBSET Chats :
          last_send' = send_telegram(Head(to_send), failing)
    /\ outbox' = Append(outbox, Head(to_send))
    /\ to_send' = Tail(to_send)
    /\ UNCHANGED <<now, pc, schedVars, sent_file, fetchVars, tiktokVars, status,
                   last, lost, late, accepted_pass, accepted_prior, boundVars, normVars>>

\* The job returns and its locals are gone.  After the start-up pass main
\* registers the two jobs (lines 264-265); after a scheduled run schedule sets
\* the job's next_run.
JobEnd ==
    /\ pc = "send" /\ to_send = <<>>
    /\ next_run' =
          IF Head(queue) = "boot"
          THEN [j \in Jobs |-> IF j = "daily" THEN NextDaily(now)
                                ELSE now + EveryMinutes]
          ELSE IF Head(queue) = "daily"
               THEN [next_run EXCEPT !["daily"] = NextDaily(now)]
               ELSE [next_run EXCEPT !["every5"] = now + EveryMinutes]
    /\ queue' = Tail(queue)
    /\ pc' = IF Tail(queue) = <<>> THEN "sleep" ELSE "job"
    /\ accepted_prior' = PriorAfterPass
    /\ ResetLocals
    /\ UNCHANGED <<now, sent_file, lost, late, boundVars, normVars>>

\* main, line 268: schedule.run_pending()
RunPending ==
    /\ pc = "loop"
    /\ queue' = DueJobs
    /\ pc' = IF DueJobs = <<>> THEN "sleep" ELSE "job"
    /\ UNCHANGED <<now, next_run, sent_file, fetchVars, tiktokVars, sendVars,
                   status, last, lost, late, accepted_pass, accepted_prior, boundVars,
                   normVars>>

\* main, line 269: time.sleep(60)
Sleep ==
    /\ pc = "sleep"
    /\ sleeps < MaxSleeps
    /\ now' = now + SleepMinutes
    /\ sleeps' = sleeps + 1
    /\ pc' = "loop"
    /\ UNCHANGED <<schedVars, sent_file, fetchVars, tiktokVars, sendVars, status,
                   last, lost, late, accepted_pass, accepted_prior, offered,
                   restarts, delays, normVars>>

\* The process is started again (lines 271-273): memory is fresh, the file
\* stays.
Restart ==
    /\ pc \in {"sleep", "crashed"}
    /\ restarts < MaxRestarts
    /\ restarts' = restarts + 1
    /\ pc' = "boot"
    /\ queue' = <<>>
    /\ next_run' = [j \in Jobs |-> NoTime]
    /\ accepted_prior' = PriorAfterPass
    /\ ResetLocals
    /\ UNCHANGED <<now, sent_file, lost, late, offered, sleeps, delays,
                   normVars>>

\* a request handler that records the visit in the file of sent links
IndexRecordsVisit(file) == file \cup { <<"/">> }

\* index, lines 248-250: what the handler of "/" leaves of the file: it returns
\* a constant text and touches nothing
index(file) == file

\* The web-server thread (lines 252-254, started at line 272) serves a request
\* at any moment, whatever the main thread is doing.
FlaskRequest ==
    /\ pc \notin {"norm_call", "norm_done", "norm_twice"}
    /\ sent_file' = index(sent_file)
    /\ UNCHANGED <<now, pc, schedVars, fetchVars, tiktokVars, sendVars, status,
                   last, lost, late, accepted_pass, accepted_prior, boundVars,
                   normVars>>

Next ==
    \/ Main
    \/ StartJob
    \/ FeedParseRaises
    \/ FeedParse
    \/ FeedEntry
    \/ FeedEnd
    \/ FetchReturn
    \/ TikTokSearch
    \/ TikTokUser
    \/ TikTokVideo
    \/ TikTokReturn
    \/ Dispatch
    \/ SendItem
    \/ JobEnd
    \/ RunPending
    \/ Sleep
    \/ Restart
    \/ FlaskRequest

Spec == Init /\ [][Next]_vars

\* ------------------------------------------------------------------------
\* normalize_link on its own: the argument is any text of at most MaxTokens
\* tokens
\* ------------------------------------------------------------------------
UrlTokens ==
    { <<"x">>, <<"?">>, <<"&">>, <<" ">>, <<"=">>, <<"k","=","v">>,
      <<"u","t","m","_">>, <<"u","t","m","_","s","=","y">> }

RECURSIVE UrlsUpTo(_)
UrlsUpTo(n) ==
    IF n = 0 THEN { <<>> }
    ELSE LET shorter == UrlsUpTo(n - 1)
         IN  shorter \cup { u \o t : u \in shorter, t \in UrlTokens }

InitNorm ==
    /\ pc = "norm_call"
    /\ InitStore
    /\ url \in UrlsUpTo(MaxTokens)
    /\ out = <<>>
    /\ twice = <<>>

\* line 73
NormalizeLinkCall ==
    /\ pc = "norm_call"
    /\ out' = normalize_link(url)
    /\ pc' = "norm_done"
    /\ UNCHANGED <<now, schedVars, sent_file, fetchVars, tiktokVars, sendVars,
                   status, last, lost, late, accepted_pass, accepted_prior, boundVars,
                   url, twice>>

\* line 73, on the text a first call returned
NormalizeLinkAgain ==
    /\ pc = "norm_done"
    /\ twice' = normalize_link(out)
    /\ pc' = "norm_twice"
    /\ UNCHANGED <<now, schedVars, sent_file, fetchVars, tiktokVars, sendVars,
                   status, last, lost, late, accepted_pass, accepted_prior, boundVars,
                   url, out>>

NextNorm ==
    \/ NormalizeLinkCall
    \/ NormalizeLinkAgain

SpecNorm == InitNorm /\ [][NextNorm]_vars

\* ------------------------------------------------------------------------
\* Properties
\* ------------------------------------------------------------------------
\* the positions of one accepted-item history
Idx(h) == DOMAIN h

\* C1: an item a pass accepts never has the normalized link of an item that
\* an earlier pass, of this process or of one before a restart, accepted.
C1_NoLinkAcceptedByTwoPasses ==
    \A i \in Idx(accepted_pass) : accepted_pass[i].nlink \notin accepted_prior

\* C2: the items one pass accepts, feeds and TikTok together, have pairwise
\* distinct normalized links.
C2_LinksDistinctWithinPass ==
    \A i, j \in Idx(accepted_pass) :
        i # j => accepted_pass[i].nlink # accepted_pass[j].nlink

\* C3: the items one pass accepts, feeds and TikTok together, have pairwise
\* distinct normalized titles.
C3_TitlesDistinctWithinPass ==
    \A i, j \in Idx(accepted_pass) :
        i # j => accepted_pass[i].ntitle # accepted_pass[j].ntitle

\* C4: every item a pass accepts was published at most RecentMinutes before the
\* moment it was checked.
C4_AcceptedIsRecent ==
    \A i \in Idx(accepted_pass) :
        accepted_pass[i].at - accepted_pass[i].item.date <= RecentMinutes

\* C5: whatever the collaborators return, no exception leaves the pass: the
\* main thread never stops.
C5_NoUncaughtException == pc # "crashed"

\* C6: a keyword-matching, unseen entry that a failed fetch would have
\* yielded is accepted when a later fetch of the source yields it.
C6_LostEntryAcceptedOnRetry ==
    \A le \in lost :
        ( /\ last.src = le[1]
          /\ last.entry = le[2]
          /\ last.outcome # "raised"
          /\ NormLink(le[2].link) \notin sent_links
          /\ NormTitle(Strip(le[2].title)) \notin seen_titles )
        => last.outcome = "accepted"

\* the feed items of new_items that source f contributed
ItemsOf(f) == { i \in DOMAIN new_items : new_items[i].source = f }

\* fetch_new_items stands at line 150: the loop over RSS_FEEDS is over
LoopOver == pc = "rss" /\ src > NumFeeds

\* C7 as stated: a source whose fetch or whose processing raised contributes
\* no item to the pass.
C7_RaisingSourceContributesNothing ==
    \A f \in Feeds :
        status[f] \in {"fetch_error", "entry_error"} => ItemsOf(f) = {}

\* C7 amended: a source whose fetch raised contributes no item; whatever
\* raises, the items accepted so far stay in the result, in the order of their
\* acceptance, and when the loop is over every source has been tried.
C7_RaiseIsContainedToSource ==
    /\ \A f \in Feeds : status[f] = "fetch_error" => ItemsOf(f) = {}
    /\ pc = "rss" =>
          new_items = [i \in DOMAIN accepted_pass |-> accepted_pass[i].item]
    /\ LoopOver => \A f \in Feeds : status[f] # "pending"

\* the first source raised while processing an entry, and the second source's
\* item is in the result
C7_Witness ==
    /\ LoopOver
    /\ status[1] = "entry_error"
    /\ ItemsOf(2) # {}

\* latest first
SortedDesc(items) ==
    \A i, j \in DOMAIN items : i < j => items[i].date >= items[j].date

\* the items of a sequence, with their multiplicities
CountIn(items, x) == Cardinality({ i \in DOMAIN items : items[i] = x })
SameItems(a, b) ==
    /\ Len(a) = Len(b)
    /\ \A i \in DOMAIN a : CountIn(a, a[i]) = CountIn(b, a[i])

\* C8: fetch_new_items returns the accepted feed items latest first, and
\* job_realtime_check hands the accepted feed and TikTok items to
\* send_telegram latest first.
C8_LatestFirst ==
    /\ pc \in {"tiktok_search", "tiktok_user", "tiktok_filter", "dispatch"} =>
          /\ SortedDesc(new_items)
          /\ SameItems(new_items,
                       [i \in { k \in DOMAIN accepted_pass :
                                  accepted_pass[k].item.source # TikTokSource }
                          |-> accepted_pass[i].item])
    /\ pc = "send" =>
          /\ SortedDesc(outbox \o to_send)
          /\ SameItems(outbox \o to_send,
                       [i \in DOMAIN accepted_pass |-> accepted_pass[i].item])

\* a TikTok item was sent before an older feed item
C8_Witness ==
    /\ pc = "send"
    /\ Len(outbox) = 2
    /\ outbox[1].source = TikTokSource
    /\ outbox[2].source \in Feeds
    /\ outbox[1].date > outbox[2].date

\* word characters: letters, digits, the underscore
WordChars ==
    ({ UpperSeq[i] : i \in 1..Len(UpperSeq) } \cup TitleAllowed \cup {"_"})
    \ {" "}

\* the indices just after the matches of a pattern that start at index i
RECURSIVE MatchEnds(_, _, _)
MatchEnds(text, i, pat) ==
    IF pat = <<>> THEN {i}
    ELSE IF Head(pat) = WS
         THEN MatchEnds(text, i, Tail(pat)) \cup
              (IF i <= Len(text) /\ text[i] \in Whitespace
               THEN MatchEnds(text, i + 1, pat) ELSE {})
         ELSE IF i <= Len(text) /\ Lower(text[i]) = Lower(Head(pat))
              THEN MatchEnds(text, i + 1, Tail(pat))
              ELSE {}

\* an alias occurs in the text with no word character next to it
WholeWordSearch(pats, text) ==
    \E p \in pats : \E i \in 1..Len(text) : \E j \in MatchEnds(text, i, p) :
        /\ i = 1 \/ text[i - 1] \notin WordChars
        /\ j > Len(text) \/ text[j] \notin WordChars

\* C9: the title of every accepted item holds an alias as a whole word.
C9_AcceptedTitleHoldsWholeWord ==
    \A i \in Idx(accepted_pass) :
        WholeWordSearch(IF accepted_pass[i].item.source = TikTokSource
                        THEN TikTokKeywords ELSE FeedKeywords,
                        accepted_pass[i].item.title)

\* URLs with a query string of one or two well-formed parameters
QueryParams == { <<"k","=","v">>, <<"u","t","m","_","s","=","y">> }
WellFormedUrls ==
    { <<"x", "?">> \o p : p \in QueryParams }
    \cup { <<"x", "?">> \o p \o <<"&">> \o q : p \in QueryParams, q \in QueryParams }

\* C10: from a well-formed URL normalize_link leaves no parameter whose key
\* starts with utm_, whether it is the first parameter (after "?") or a later
\* one (after "&").
C10_NoUtmParameterLeft ==
    (pc = "norm_done" /\ url \in WellFormedUrls) =>
        /\ ~Contains(out, <<"?", "u", "t", "m", "_">>)
        /\ ~Contains(out, UtmPrefix)

\* the feed entry just handled went through the keyword check
ReachedWindowCheck == last.outcome \in {"window", "stale", "accepted"}

\* C11: the window check rejects an entry exactly when it was published
\* strictly before cutoff = now - window, now being the clock at the start of
\* the function: in fetch_new_items for the entry just handled, in
\* fetch_tiktok_videos for every element the loop can be handed, and no
\* accepted item was published more than the window before its check.
C11_WindowRejectsExactlyBeforeCutoff ==
    /\ (pc = "rss" /\ ReachedWindowCheck) =>
          (last.outcome = "window"
             <=> parse_date(last.entry, last.at) < cutoff)
    /\ pc = "tiktok_filter" =>
          \A v \in TikTokUniverse(now) :
              LET o == VideoOutcome(v, now, sent_links)
              IN  o \in {"window", "accepted"} =>
                     (o = "window"
                        <=> v.createTime < now - TikTokWindowMinutes)
    /\ \A i \in Idx(accepted_pass) :
          IF accepted_pass[i].item.source = TikTokSource
          THEN accepted_pass[i].item.date >=
                  accepted_pass[i].at - TikTokWindowMinutes
          ELSE accepted_pass[i].item.date >= cutoff

\* a feed entry published exactly at the cutoff got past the window check
C11_Witness ==
    /\ pc = "rss"
    /\ last.outcome = "stale"
    /\ last.entry.published = cutoff

\* C12: normalizing the result of normalize_link again returns it unchanged.
C12_NormalizeLinkIdempotent == pc = "norm_twice" => twice = out

\* a tracking parameter was removed, text that starts like one is left, and the
\* second call has run
C12_Witness ==
    /\ pc = "norm_twice"
    /\ Len(out) < Len(Strip(url))
    /\ Contains(out, UtmPrefix)

\* C13: every call of send_telegram tries every chat id, whichever posts
\* raise, and returns to its caller.
C13_EveryChatTried ==
    last_send # NoSend =>
        /\ last_send.tried = Chats
        /\ last_send.reached \subseteq last_send.tried
        /\ pc \in {"job", "send"}

\* the post to the first chat raised and the chat after it was reached
C13_Witness ==
    /\ last_send # NoSend
    /\ last_send.msg # StartupMessage
    /\ 1 \notin last_send.reached
    /\ 2 \in last_send.reached

\* job_realtime_check is running
PassRunning ==
    pc \in {"rss", "tiktok_search", "tiktok_user", "tiktok_filter", "dispatch",
            "send"}

\* the links the running function has recorded since it loaded sent_links
OwnLinks ==
    { Strip(accepted_pass[i].item.link) :
        i \in { k \in Idx(accepted_pass) :
                  (pc = "rss") = (accepted_pass[k].item.source # TikTokSource) } }

\* C14: passes run one at a time and nothing else touches the store: the job
\* that runs is the head of run_pending's list, a job starts with no pass in
\* progress, and between the moment a function loads sent_links and its
\* return the file holds what it loaded and what this function recorded,
\* nothing more.
C14_OnePassAtATime ==
    /\ PassRunning => queue # <<>>
    /\ pc = "job" => (accepted_pass = <<>> /\ new_items = <<>> /\ to_send = <<>>)
    /\ pc \in {"rss", "tiktok_user", "tiktok_filter"} =>
          load_sent(sent_file) = sent_links \cup (OwnLinks \ { <<>> })

\* 09:00: the daily job has run and recorded a link, and the every-5-minutes
\* job, due in the same run_pending, runs after it and has loaded that link
C14_Witness ==
    /\ pc = "rss"
    /\ queue = <<"every5">>
    /\ next_run["daily"] > now
    /\ next_run["every5"] <= now
    /\ sent_links # {}
    /\ accepted_prior # {}

\* the outcomes of fetch_new_items that reject an entry
Rejections == {"empty_title", "seen", "no_keyword", "window", "stale"}

\* C15: no step removes a line from the file; a step that handles a feed entry
\* and rejects it leaves the file as it was; and the file gains a line only in
\* a step that accepts an item, the line being that item's stripped link.
C15_StoreGainsOnlyAccepted ==
    [][ /\ sent_file \subseteq sent_file'
        /\ (pc = "rss" /\ offered' = offered + 1 /\ last'.outcome \in Rejections)
              => sent_file' = sent_file
        /\ sent_file' # sent_file =>
              /\ Len(accepted_pass') = Len(accepted_pass) + 1
              /\ sent_file' = sent_file \cup
                    { Strip(accepted_pass'[Len(accepted_pass')].item.link) }
      ]_vars

\* an entry that matches the keywords and whose link is not in the store was
\* rejected by the recency gate, and the store, which is not empty, does not
\* hold its link
C15_Witness ==
    /\ pc = "rss"
    /\ last.outcome = "stale"
    /\ sent_file # {}
    /\ NormLink(last.entry.link) \notin load_sent(sent_file)

\* neither timestamp of the entry can be used: the one parse_date picks is
\* absent or does not parse
NoUsableStamp(e) ==
    \/ e.published = BadTime
    \/ e.published = NoTime /\ e.updated \in {NoTime, BadTime}

\* C16: a feed entry without a usable timestamp is dated by the clock and is
\* rejected neither by the window check nor by the recency gate; an accepted
\* entry is dated by its published timestamp when it has one, else by its
\* updated timestamp, else by the clock.
C16_ParseDateFallsBackToClock ==
    (pc = "rss" /\ last.outcome \notin {"none", "raised"}) =>
        LET e == last.entry
            item == new_items[Len(new_items)]
        IN  /\ NoUsableStamp(e) => last.outcome \notin {"window", "stale"}
            /\ last.outcome = "accepted" =>
                  item.date =
                     IF NoUsableStamp(e) THEN last.at
                     ELSE IF e.published # NoTime THEN e.published
                     ELSE e.updated

\* an entry whose published timestamp does not parse, and whose updated
\* timestamp is too old for the recency gate, was accepted
C16_Witness ==
    /\ pc = "rss"
    /\ last.outcome = "accepted"
    /\ last.entry.published = BadTime
    /\ last.entry.updated = last.at - 6

\* C17: when a run of job_realtime_check is over, by its return or by an
\* exception, every item it recorded in the store has been handed to
\* send_telegram.
C17_RecordedItemsAreSent ==
    /\ (pc = "send" /\ to_send = <<>>) =>
          SameItems(outbox, [i \in DOMAIN accepted_pass |-> accepted_pass[i].item])
    /\ pc = "crashed" => accepted_pass = <<>>

\* nothing has failed so far: no fetch raised, the process was not restarted,
\* and the collaborators have yielded nothing but the one entry at hand
NoFailureSoFar == lost = {} /\ restarts = 0 /\ offered = 1 /\ pc = "rss"

\* C18: while nothing fails, a keyword-matching entry with a fixed timestamp
\* that was published just after a pass fetched its feed is accepted when the
\* next fetch of that feed yields it, its link and title being unseen.
C18_NoEntryFallsBetweenPasses ==
    \A le \in late :
        ( /\ NoFailureSoFar
          /\ last.src = le[1]
          /\ last.entry = le[2]
          /\ NormLink(le[2].link) \notin sent_links
          /\ NormTitle(Strip(le[2].title)) \notin seen_titles )
        => last.outcome = "accepted"

====
